---------------------------- MODULE Spec2Model ----------------------------
(***************************************************************************)
(* kalkul: a two-stack, operator-precedence evaluator of one arithmetic    *)
(* expression given as a stream of space-separated tokens (src/kalkul.rs). *)
(*                                                                         *)
(* A character is a one-character string, a token a sequence of            *)
(* characters, exactly as src.split(b' ') yields it (before trim).         *)
(* Operands are i32: the arithmetic below keeps the 32-bit width, both     *)
(* for a build with overflow checks (a panic) and for one without (wrap).  *)
(***************************************************************************)
EXTENDS Integers, Sequences, FiniteSets, TLC

\* ------------------------------------------------------------------ bounds
\* Longest stream of arbitrary tokens the token source produces.
MaxTokens == 3

\* Most operators in a stream that keeps the infix shape n op n op ... .
MaxInfixOps == 3

\* Deepest operand stack and deepest operator stack Evaluator::evaluate is
\* called on directly.
MaxUnitNums == 3

MaxUnitOps == 2

\* The calls of evaluate made one after the other on the same token sequence.
MaxCalls == 2

\* Longest token sequence that is evaluated more than once.
MaxReplayTokens == 3

\* ------------------------------------------------------------ i32 operands
I32_MAX == 2147483647

I32_MIN == (-I32_MAX) - 1

\* a + b leaves the i32 range.
AddOverflows(a, b) ==
    \/ b > 0 /\ a > I32_MAX - b
    \/ b < 0 /\ a < I32_MIN - b

\* a + b modulo 2^32, as a two's complement i32.
WrapAdd(a, b) ==
    IF ~AddOverflows(a, b) THEN a + b
    ELSE IF b > 0 THEN ((a - I32_MAX) - 1) + ((b - I32_MAX) - 1)
    ELSE ((a + I32_MAX) + 1) + ((b + I32_MAX) + 1)

\* a - b leaves the i32 range.
SubOverflows(a, b) ==
    \/ b > 0 /\ a < I32_MIN + b
    \/ b < 0 /\ a > I32_MAX + b

\* -a modulo 2^32.
WrapNeg(a) == IF a = I32_MIN THEN I32_MIN ELSE -a

\* a - b modulo 2^32.
WrapSub(a, b) == IF ~SubOverflows(a, b) THEN a - b ELSE WrapAdd(a, WrapNeg(b))

\* The i32 quotient rounded toward negative infinity (not what Rust computes).
FloorDiv(a, b) == IF b > 0 THEN a \div b ELSE (-a) \div (-b)

\* Rust's a / b on i32 for b # 0 and (a, b) # (MIN, -1): the quotient
\* truncated toward zero.
TruncDiv(a, b) ==
    IF b = I32_MIN THEN (IF a = I32_MIN THEN 1 ELSE 0)
    ELSE IF a = I32_MIN
         THEN LET p == IF b < 0 THEN -b ELSE b
                  t == (a \div p) + (IF a % p # 0 THEN 1 ELSE 0)
              IN  IF b < 0 THEN -t ELSE t
    ELSE LET m == (IF a < 0 THEN -a ELSE a) \div (IF b < 0 THEN -b ELSE b)
         IN  IF (a < 0) # (b < 0) THEN -m ELSE m

\* a * b modulo 2^32, as a two's complement i32, from the 16-bit halves of
\* the operands (no partial product leaves 32 bits).
WrapMul(a, b) ==
    LET a0 == a % 65536
        a1 == a \div 65536
        b0 == b % 65536
        b1 == b \div 65536
        m == (((a1 * b0) % 65536) + ((a0 * b1) % 65536)) % 65536
        p == (a0 \div 256) * b0
        q == (a0 % 256) * b0
        s == (p % 256) * 256 + q
        hi == (m + (p \div 256) + (s \div 65536)) % 65536
        lo == s % 65536
    IN  IF hi >= 32768 THEN (hi - 65536) * 65536 + lo ELSE hi * 65536 + lo

\* a * b leaves the i32 range: the wrapped product divided by a is not b.
MulOverflows(a, b) ==
    IF a = 0 \/ b = 0 THEN FALSE
    ELSE IF a = I32_MIN THEN b # 1
    ELSE IF b = I32_MIN THEN a # 1
    ELSE LET w == WrapMul(a, b)
         IN  \/ w = I32_MIN /\ a = -1
             \/ w % (IF a < 0 THEN -a ELSE a) # 0
             \/ TruncDiv(w, a) # b

\* a * b on i32: the overflow flag and the wrapped product.
Mul32(a, b) == [ovf |-> MulOverflows(a, b), val |-> WrapMul(a, b)]

\* --------------------------------------------------------------- results
\* Result<i32> of one call, or the call's abort: the call has not ended
\* (Running), returned Ok(val), returned Err(err), or panicked.
Running == [tag |-> "Running", val |-> 0, err |-> ""]

Ok(v) == [tag |-> "Ok", val |-> v, err |-> ""]

Err(e) == [tag |-> "Err", val |-> 0, err |-> e]

Panic(m) == [tag |-> "Panic", val |-> 0, err |-> m]

\* enum Error
Error == {"ReadError", "ParseError", "NotEnoughElements", "UnknownOperator",
          "StackUnderflow"}

\* ---------------------------------------------------------- operator model
OpKind == {"Plus", "Minus", "Divide", "Multiply", "OpenParen", "CloseParen",
           "Unknown"}

\* All operators on one level: precedence is lost.
Op_new_flat(kind) == [kind |-> kind, prec |-> IF kind = "Unknown" THEN 0 ELSE 1]

\* Op::new: the operator with its precedence.
Op_new(kind) ==
    [kind |-> kind,
     prec |-> CASE kind \in {"Plus", "Minus"} -> 1
                [] kind \in {"Divide", "Multiply"} -> 2
                [] kind \in {"OpenParen", "CloseParen"} -> 3
                [] OTHER -> 0]

\* Op::from_char
Op_from_char(c) ==
    Op_new(CASE c = "+" -> "Plus"
             [] c = "-" -> "Minus"
             [] c = "/" -> "Divide"
             [] c = "*" -> "Multiply"
             [] c = "(" -> "OpenParen"
             [] c = ")" -> "CloseParen"
             [] OTHER -> "Unknown")

CHAR_OPS == {"+", "-", "/", "*", "(", ")"}

\* --------------------------------------------------------------- tokenizer
Digits == {"0", "1", "2", "3", "4", "5", "6", "7", "8", "9"}

\* char::to_digit(10) of a decimal digit.
DigitVal(c) ==
    CASE c = "0" -> 0 [] c = "1" -> 1 [] c = "2" -> 2 [] c = "3" -> 3
      [] c = "4" -> 4 [] c = "5" -> 5 [] c = "6" -> 6 [] c = "7" -> 7
      [] c = "8" -> 8 [] c = "9" -> 9

\* Characters str::trim removes (a token holds no ' ': it is the delimiter).
Whitespace == {"\n", "\t", "\r"}

\* A byte that is no UTF-8: String::from_utf8 fails on a token holding it.
InvalidByte == "<0xFF>"

from_utf8_ok(t) == \A i \in 1..Len(t) : t[i] # InvalidByte

RECURSIVE TrimStart(_)
TrimStart(t) ==
    IF t # <<>> /\ Head(t) \in Whitespace THEN TrimStart(Tail(t)) ELSE t

RECURSIVE TrimEnd(_)
TrimEnd(t) ==
    IF t # <<>> /\ t[Len(t)] \in Whitespace
    THEN TrimEnd(SubSeq(t, 1, Len(t) - 1)) ELSE t

\* str::trim
trim(t) == TrimEnd(TrimStart(t))

\* is_num: the fold of "is a digit" over the characters, true of the empty
\* string.
is_num(s) == \A i \in 1..Len(s) : s[i] \in Digits

\* is_op
\* is_op that lets every character through.
is_op_any(c) == TRUE

is_op(c) == c \in CHAR_OPS

\* The digits of s accumulated from the left with checked_mul(10) and
\* checked_add(digit), from the value acc.
RECURSIVE ParseDigits(_, _)
ParseDigits(s, acc) ==
    IF s = <<>> THEN [ok |-> TRUE, val |-> acc]
    ELSE LET d == DigitVal(Head(s))
         IN  IF acc > (I32_MAX - d) \div 10 THEN [ok |-> FALSE, val |-> 0]
             ELSE ParseDigits(Tail(s), acc * 10 + d)

\* str::parse::<i32> of a string of digits: Err on the empty string and on a
\* value above i32::MAX.
parse(s) == IF s = <<>> THEN [ok |-> FALSE, val |-> 0] ELSE ParseDigits(s, 0)

\* char::from_str succeeds on exactly one character.
char_from_str_ok(s) == Len(s) = 1

\* --------------------------------------------------------------- evaluator
\* The arms of the match on op.kind with the operands swapped: lhs OP rhs,
\* the first popped operand on the left.
Compute_swapped(kind, lhs, rhs, checks) ==
    CASE kind = "Plus" -> Ok(WrapAdd(lhs, rhs))
      [] kind = "Minus" -> Ok(WrapSub(lhs, rhs))
      [] kind = "Multiply" -> Ok(Mul32(lhs, rhs).val)
      [] kind = "Divide" ->
            IF rhs = 0 THEN Panic("attempt to divide by zero")
            ELSE Ok(TruncDiv(lhs, rhs))
      [] kind \in {"OpenParen", "CloseParen"} -> Panic("not yet implemented")
      [] OTHER -> Err("UnknownOperator")

\* The arms of the match on op.kind with a quotient of zero for a zero
\* divisor instead of the panic.
Compute_div0(kind, lhs, rhs, checks) ==
    CASE kind = "Plus" -> Ok(WrapAdd(rhs, lhs))
      [] kind = "Minus" -> Ok(WrapSub(rhs, lhs))
      [] kind = "Multiply" -> Ok(Mul32(rhs, lhs).val)
      [] kind = "Divide" -> IF lhs = 0 THEN Ok(0) ELSE Ok(TruncDiv(rhs, lhs))
      [] kind \in {"OpenParen", "CloseParen"} -> Panic("not yet implemented")
      [] OTHER -> Err("UnknownOperator")

\* The arms of the match on op.kind with a grouping operator reduced to its
\* later operand instead of todo!().
Compute_group(kind, lhs, rhs, checks) ==
    CASE kind = "Plus" -> Ok(WrapAdd(rhs, lhs))
      [] kind = "Minus" -> Ok(WrapSub(rhs, lhs))
      [] kind = "Multiply" -> Ok(Mul32(rhs, lhs).val)
      [] kind = "Divide" ->
            IF lhs = 0 THEN Panic("attempt to divide by zero")
            ELSE Ok(TruncDiv(rhs, lhs))
      [] kind \in {"OpenParen", "CloseParen"} -> Ok(lhs)
      [] OTHER -> Err("UnknownOperator")

\* The arms of the match on op.kind in Evaluator::evaluate: lhs is the operand
\* popped first (pushed later), rhs the one popped second (pushed earlier),
\* and the value is rhs OP lhs.  i32 arithmetic: with overflow checks (checks)
\* an overflow panics, without them it wraps; a zero divisor and MIN / -1
\* panic in every build.
Compute(kind, lhs, rhs, checks) ==
    CASE kind = "Plus" ->
            IF checks /\ AddOverflows(rhs, lhs)
            THEN Panic("attempt to add with overflow")
            ELSE Ok(WrapAdd(rhs, lhs))
      [] kind = "Minus" ->
            IF checks /\ SubOverflows(rhs, lhs)
            THEN Panic("attempt to subtract with overflow")
            ELSE Ok(WrapSub(rhs, lhs))
      [] kind = "Multiply" ->
            IF checks /\ Mul32(rhs, lhs).ovf
            THEN Panic("attempt to multiply with overflow")
            ELSE Ok(Mul32(rhs, lhs).val)
      [] kind = "Divide" ->
            IF lhs = 0 THEN Panic("attempt to divide by zero")
            ELSE IF rhs = I32_MIN /\ lhs = -1
                 THEN Panic("attempt to divide with overflow")
            ELSE Ok(TruncDiv(rhs, lhs))
      [] kind \in {"OpenParen", "CloseParen"} -> Panic("not yet implemented")
      [] OTHER -> Err("UnknownOperator")

\* s without its last n entries (n pops).
DropLast(s, n) == SubSeq(s, 1, Len(s) - n)

\* Evaluator::evaluate with the operator read by top_op and left on the
\* stack.
Evaluator_evaluate_top_op(ns, os, checks) ==
    IF Len(ns) < 2
    THEN [nums |-> <<>>, ops |-> os, res |-> Err("NotEnoughElements")]
    ELSE IF os = <<>>
         THEN [nums |-> DropLast(ns, 2), ops |-> os,
               res |-> Err("NotEnoughElements")]
    ELSE LET r == Compute(os[Len(os)].kind, ns[Len(ns)], ns[Len(ns) - 1],
                          checks)
         IN  [nums |-> IF r.tag = "Ok" THEN Append(DropLast(ns, 2), r.val)
                       ELSE DropLast(ns, 2),
              ops |-> os,
              res |-> r]

\* Evaluator::evaluate with the second operand read by top_num and left on
\* the stack.
Evaluator_evaluate_top_num(ns, os, checks) ==
    IF Len(ns) < 2
    THEN [nums |-> <<>>, ops |-> os, res |-> Err("NotEnoughElements")]
    ELSE IF os = <<>>
         THEN [nums |-> DropLast(ns, 2), ops |-> os,
               res |-> Err("NotEnoughElements")]
    ELSE LET r == Compute(os[Len(os)].kind, ns[Len(ns)], ns[Len(ns) - 1],
                          checks)
         IN  [nums |-> IF r.tag = "Ok" THEN Append(DropLast(ns, 1), r.val)
                       ELSE DropLast(ns, 1),
              ops |-> DropLast(os, 1),
              res |-> r]

\* Evaluator::evaluate with the missing operator forgiven: two operands and
\* no operator give back the later operand.
Evaluator_evaluate_lenient(ns, os, checks) ==
    IF Len(ns) < 2
    THEN [nums |-> <<>>, ops |-> os, res |-> Err("NotEnoughElements")]
    ELSE IF os = <<>>
         THEN [nums |-> DropLast(ns, 1), ops |-> os, res |-> Ok(ns[Len(ns)])]
    ELSE LET r == Compute(os[Len(os)].kind, ns[Len(ns)], ns[Len(ns) - 1],
                          checks)
         IN  [nums |-> IF r.tag = "Ok" THEN Append(DropLast(ns, 2), r.val)
                       ELSE DropLast(ns, 2),
              ops |-> DropLast(os, 1),
              res |-> r]

\* Evaluator::evaluate, one reduction, on the stacks ns and os: the stacks it
\* leaves and its outcome.  Both pop_num calls run before the match, so a
\* refused reduction has already popped the operands it found; pop_op runs
\* only when two operands were popped; the value is pushed on Ok alone.
Evaluator_evaluate(ns, os, checks) ==
    IF Len(ns) < 2
    THEN [nums |-> <<>>, ops |-> os, res |-> Err("NotEnoughElements")]
    ELSE LET lhs == ns[Len(ns)]
             rhs == ns[Len(ns) - 1]
             rest == DropLast(ns, 2)
         IN  IF os = <<>>
             THEN [nums |-> rest, ops |-> os, res |-> Err("NotEnoughElements")]
             ELSE LET o == os[Len(os)]
                      r == Compute(o.kind, lhs, rhs, checks)
                  IN  [nums |-> IF r.tag = "Ok" THEN Append(rest, r.val)
                                ELSE rest,
                       ops |-> DropLast(os, 1),
                       res |-> r]

\* ------------------------------------------------------------ token source
\* Operand tokens of the streams that keep the infix shape.
InfixOperands == {<<"0">>, <<"2">>, <<"7">>}

\* The tokens "+", "-", "*" and "/".
ArithTokens == {<<"+">>, <<"-">>, <<"*">>, <<"/">>}

\* Every token the source may yield: operands (one with a trailing newline,
\* i32::MAX, and i32::MAX + 1), the six operator characters, the empty token
\* (two spaces in a row), a token of whitespace, tokens that are neither
\* numbers nor operators, and a token that is no UTF-8.
Tokens ==
    InfixOperands
    \cup {<<"1", "2">>, <<"7", "\n">>,
          <<"2", "1", "4", "7", "4", "8", "3", "6", "4", "7">>,
          <<"2", "1", "4", "7", "4", "8", "3", "6", "4", "8">>}
    \cup {<<c>> : c \in CHAR_OPS}
    \cup {<<>>, <<"\n">>, <<"a">>, <<"1", "a">>, <<"+", "-">>, <<InvalidByte>>}

\* s is n, n op, n op n, ...: operands at the odd places, + - * / at the
\* even ones, and at most MaxInfixOps operators.
InfixShape(s) ==
    /\ Len(s) <= 2 * MaxInfixOps + 1
    /\ \A i \in 1..Len(s) :
          IF i % 2 = 1 THEN s[i] \in InfixOperands ELSE s[i] \in ArithTokens

\* The streams the token source produces: every stream of at most MaxTokens
\* tokens, and the longer ones of infix shape.
CanYield(s, t) == Len(s) < MaxTokens \/ InfixShape(Append(s, t))

\* ------------------------------------------------------------------ state
VARIABLES
    overflow_checks,  \* the build panics on i32 overflow (debug) or wraps
    toks,             \* the tokens src.split(b' ') has yielded so far
    nums,             \* ev.nums, the operand stack (top is last)
    ops,              \* ev.ops, the operator stack (top is last)
    op,               \* the operator being pushed (lines 196-203)
    pc,               \* where evaluate is
    result,           \* what evaluate returned, or its panic
    reds,             \* the calls of Evaluator::evaluate made so far: where
                      \* evaluate was, the stacks before, the outcome
    calls             \* the earlier calls of evaluate in this process: the
                      \* tokens read, how the token source ended, the outcome

vars == <<overflow_checks, toks, nums, ops, op, pc, result, reds, calls>>

NoOp == [kind |-> "None", prec |-> 0]

\* "Calling": Evaluator::evaluate is called on its own, outside the driver.
PC == {"Scanning", "PushOperator", "Draining", "Done", "Failed", "Aborted",
       "Calling"}

\* Evaluator::new, before the first token.
Init ==
    /\ overflow_checks \in BOOLEAN
    /\ toks = <<>>
    /\ nums = <<>>
    /\ ops = <<>>
    /\ op = NoOp
    /\ pc = "Scanning"
    /\ result = Running
    /\ reds = <<>>
    /\ calls = <<>>

\* The token source gives t as its next token: in the first call of the
\* process any token its streams allow, in a later call on the same input
\* the token the first call read at this place.
Yields(t) ==
    /\ CanYield(toks, t)
    /\ calls # <<>> =>
          /\ Len(toks) < Len(calls[1].toks)
          /\ t = calls[1].toks[Len(toks) + 1]

\* evaluate leaves with `?` or by a panic: r is Err(_) or Panic(_).
Leave(r) ==
    /\ pc' = (IF r.tag = "Panic" THEN "Aborted" ELSE "Failed")
    /\ result' = r

\* One call ev.evaluate() from the stacks as they are: the stacks after it,
\* and the record of the call.
Reduce(next_pc) ==
    LET e == Evaluator_evaluate(nums, ops, overflow_checks)
    IN  /\ nums' = e.nums
        /\ ops' = e.ops
        /\ reds' = Append(reds, [at |-> pc, nums |-> nums, ops |-> ops,
                                 res |-> e.res])
        /\ IF e.res.tag = "Ok"
           THEN pc' = next_pc /\ result' = result
           ELSE Leave(e.res)

\* The loop stops at a top operator of lower precedence or at one of equal
\* precedence: equal precedence is not reduced.
StopsAt_le(top, o) == top.prec <= o.prec

\* The loop of lines 197-202 stops at this top operator.
StopsAt(top, o) == top.prec < o.prec

\* ----------------------------------------------------------------- actions
\* buf? fails: the token source returns an I/O error.
ReadFails ==
    /\ pc = "Scanning"
    /\ Leave(Err("ReadError"))
    /\ UNCHANGED <<overflow_checks, toks, nums, ops, op, reds, calls>>

\* String::from_utf8(..)? fails on the token.
Utf8Fails ==
    /\ pc = "Scanning"
    /\ \E t \in Tokens :
          /\ Yields(t)
          /\ ~from_utf8_ok(t)
          /\ toks' = Append(toks, t)
    /\ Leave(Err("ParseError"))
    /\ UNCHANGED <<overflow_checks, nums, ops, op, reds, calls>>

\* is_num(token) and token.parse() is Ok: push_num.
PushNumber ==
    /\ pc = "Scanning"
    /\ \E t \in Tokens :
          /\ Yields(t)
          /\ from_utf8_ok(t)
          /\ is_num(trim(t))
          /\ parse(trim(t)).ok
          /\ toks' = Append(toks, t)
          /\ nums' = Append(nums, parse(trim(t)).val)
    /\ UNCHANGED <<overflow_checks, ops, op, pc, result, reds, calls>>

\* is_num(token) and token.parse() is Err: unwrap() panics.
ParsePanics ==
    /\ pc = "Scanning"
    /\ \E t \in Tokens :
          /\ Yields(t)
          /\ from_utf8_ok(t)
          /\ is_num(trim(t))
          /\ ~parse(trim(t)).ok
          /\ toks' = Append(toks, t)
    /\ Leave(Panic("called Result::unwrap() on an Err value"))
    /\ UNCHANGED <<overflow_checks, nums, ops, op, reds, calls>>

\* char::from_str(token)? fails: the token is not one character.
CharFails ==
    /\ pc = "Scanning"
    /\ \E t \in Tokens :
          /\ Yields(t)
          /\ from_utf8_ok(t)
          /\ ~is_num(trim(t))
          /\ ~char_from_str_ok(trim(t))
          /\ toks' = Append(toks, t)
    /\ Leave(Err("ParseError"))
    /\ UNCHANGED <<overflow_checks, nums, ops, op, reds, calls>>

\* is_op(token): Op::from_char, then the loop of lines 197-202.
ReadOperator ==
    /\ pc = "Scanning"
    /\ \E t \in Tokens :
          /\ Yields(t)
          /\ from_utf8_ok(t)
          /\ ~is_num(trim(t))
          /\ char_from_str_ok(trim(t))
          /\ is_op(trim(t)[1])
          /\ toks' = Append(toks, t)
          /\ op' = Op_from_char(trim(t)[1])
    /\ pc' = "PushOperator"
    /\ UNCHANGED <<overflow_checks, nums, ops, result, reds, calls>>

\* One character that is no operator: no branch of the loop body takes it,
\* and the for loop goes on to the next token.
SkipChar ==
    /\ pc = "Scanning"
    /\ \E t \in Tokens :
          /\ Yields(t)
          /\ from_utf8_ok(t)
          /\ ~is_num(trim(t))
          /\ char_from_str_ok(trim(t))
          /\ ~is_op(trim(t)[1])
          /\ toks' = Append(toks, t)
    /\ UNCHANGED <<overflow_checks, nums, ops, op, pc, result, reds, calls>>

\* One turn of the loop of lines 197-202: the top operator does not stop
\* the loop, ev.evaluate()?.
ReduceBeforePush ==
    /\ pc = "PushOperator"
    /\ ops # <<>>
    /\ ~StopsAt(ops[Len(ops)], op)
    /\ Reduce("PushOperator")
    /\ UNCHANGED <<overflow_checks, toks, op, calls>>

\* The loop of lines 197-202 ends: ev.push_op(op).
PushOp ==
    /\ pc = "PushOperator"
    /\ ops # <<>> => StopsAt(ops[Len(ops)], op)
    /\ ops' = Append(ops, op)
    /\ op' = NoOp
    /\ pc' = "Scanning"
    /\ UNCHANGED <<overflow_checks, toks, nums, result, reds, calls>>

\* The token source is exhausted: the for loop ends.
EndOfInput ==
    /\ pc = "Scanning"
    /\ pc' = "Draining"
    /\ UNCHANGED <<overflow_checks, toks, nums, ops, op, result, reds, calls>>

\* One turn of the loop of lines 209-211: ev.evaluate()?.
DrainReduce ==
    /\ pc = "Draining"
    /\ ops # <<>>
    /\ Reduce("Draining")
    /\ UNCHANGED <<overflow_checks, toks, op, calls>>

\* The match of lines 213-216 with a value of zero for the empty stack.
FinalResult_zero(ns) == IF ns # <<>> THEN Ok(ns[Len(ns)]) ELSE Ok(0)

\* The match on ev.top_num() of lines 213-216: the top operand, or
\* StackUnderflow when there is none.
FinalResult(ns) ==
    IF ns # <<>> THEN Ok(ns[Len(ns)]) ELSE Err("StackUnderflow")

\* Lines 213-216: the operator stack is empty, the result is top_num().
Finish ==
    /\ pc = "Draining"
    /\ ops = <<>>
    /\ pc' = "Done"
    /\ result' = FinalResult(nums)
    /\ UNCHANGED <<overflow_checks, toks, nums, ops, op, reds, calls>>

Next ==
    \/ ReadFails
    \/ Utf8Fails
    \/ PushNumber
    \/ ParsePanics
    \/ CharFails
    \/ ReadOperator
    \/ SkipChar
    \/ ReduceBeforePush
    \/ PushOp
    \/ EndOfInput
    \/ DrainReduce
    \/ Finish

Spec == Init /\ [][Next]_vars

\* The driver is one sequential loop with nothing to wait for but the token
\* source: whenever it has a next step it takes one.
FairSpec == Spec /\ WF_vars(Next)

\* ------------------------------------------------- evaluate called again
\* Evaluator::new that takes over the stacks of the evaluator before it.
Evaluator_new_kept(ns, os) == [nums |-> ns, ops |-> os]

\* Evaluator::new: both stacks empty, whatever the stacks ns and os of the
\* evaluator of an earlier call were.
Evaluator_new(ns, os) == [nums |-> <<>>, ops |-> <<>>]

\* The for loop of the call ended with the token source exhausted.
ReachedEnd ==
    \/ pc \in {"Draining", "Done"}
    \/ pc \in {"Failed", "Aborted"} /\ reds # <<>>
       /\ reds[Len(reds)].at = "Draining"

\* evaluate has returned or panicked (the panic caught by the caller), and is
\* called again: ev is a new Evaluator, nothing else is carried over.
NewCall ==
    /\ pc \in {"Done", "Failed", "Aborted"}
    /\ Len(calls) < MaxCalls - 1
    /\ calls' = Append(calls, [toks |-> toks, eof |-> ReachedEnd,
                               result |-> result])
    /\ nums' = Evaluator_new(nums, ops).nums
    /\ ops' = Evaluator_new(nums, ops).ops
    /\ toks' = <<>>
    /\ op' = NoOp
    /\ pc' = "Scanning"
    /\ result' = Running
    /\ reds' = <<>>
    /\ UNCHANGED overflow_checks

\* The token source of a later call ends as the source of the first call
\* did: after the same tokens (see Yields), with the same end of input or
\* the same read error. No sequence read is longer than MaxReplayTokens.
SameSource ==
    /\ Len(toks') <= MaxReplayTokens
    /\ calls # <<>> =>
          /\ pc = "Scanning" /\ pc' = "Draining" =>
                toks = calls[1].toks /\ calls[1].eof
          /\ pc = "Scanning" /\ pc' = "Failed" /\ toks' = toks =>
                toks = calls[1].toks /\ calls[1].result = Err("ReadError")

NextTwice ==
    \/ ReadFails /\ SameSource
    \/ Utf8Fails /\ SameSource
    \/ PushNumber /\ SameSource
    \/ ParsePanics /\ SameSource
    \/ CharFails /\ SameSource
    \/ ReadOperator /\ SameSource
    \/ SkipChar /\ SameSource
    \/ ReduceBeforePush
    \/ PushOp
    \/ EndOfInput /\ SameSource
    \/ DrainReduce
    \/ Finish
    \/ NewCall

SpecTwice == Init /\ [][NextTwice]_vars

\* ------------------------------------------- Evaluator::evaluate on its own
\* Operands of the stacks Evaluator::evaluate is called on directly.
UnitValues == {-7, 0, 2, I32_MAX}

\* The sequences over S of length at most n.
SeqsUpTo(S, n) == UNION {[1..k -> S] : k \in 0..n}

\* An Evaluator built with push_num and push_op in any order: any operand
\* stack and any operator stack (of every kind Op::from_char can give).
InitReduce ==
    /\ overflow_checks \in BOOLEAN
    /\ toks = <<>>
    /\ nums \in SeqsUpTo(UnitValues, MaxUnitNums)
    /\ \E ks \in SeqsUpTo(OpKind, MaxUnitOps) :
          ops = [i \in 1..Len(ks) |-> Op_new(ks[i])]
    /\ op = NoOp
    /\ pc = "Calling"
    /\ result = Running
    /\ reds = <<>>
    /\ calls = <<>>

\* One direct call of Evaluator::evaluate; after Ok(()) it can be called
\* again.
CallEvaluate ==
    /\ pc = "Calling"
    /\ Reduce("Calling")
    /\ UNCHANGED <<overflow_checks, toks, op, calls>>

SpecReduce == InitReduce /\ [][CallEvaluate]_vars

TypeOK ==
    /\ overflow_checks \in BOOLEAN
    /\ \A i \in 1..Len(toks) : toks[i] \in Tokens
    /\ \A i \in 1..Len(nums) : nums[i] \in I32_MIN..I32_MAX
    /\ \A i \in 1..Len(ops) : ops[i].kind \in OpKind
    /\ pc \in PC
    /\ result.tag \in {"Running", "Ok", "Err", "Panic"}
    /\ result.tag = "Err" => result.err \in Error
    /\ Len(calls) < MaxCalls

\* =========================================================== properties
\* The call has ended: returned a value or an error, or panicked.
Ended == pc \in {"Done", "Failed", "Aborted"}

\* The token source was exhausted in this call (the drain loop was entered).
SawEndOfInput ==
    \/ pc \in {"Draining", "Done"}
    \/ pc \in {"Failed", "Aborted"} /\ reds # <<>>
       /\ reds[Len(reds)].at = "Draining"

\* t is an operand token: decimal digits with a value in the i32 range.
IsOperand(t) == from_utf8_ok(t) /\ trim(t) # <<>> /\ is_num(trim(t))
                /\ parse(trim(t)).ok

\* The value of an operand token.
ValueOf(t) == parse(trim(t)).val

\* t is one of the tokens + - * /.
IsArith(t) == trim(t) \in ArithTokens

\* t is "(" or ")".
IsGrouping(t) == trim(t) \in {<<"(">>, <<")">>}

\* The operator kind an arithmetic token stands for.
KindOf(t) ==
    CASE trim(t) = <<"+">> -> "Plus" [] trim(t) = <<"-">> -> "Minus"
      [] trim(t) = <<"*">> -> "Multiply" [] trim(t) = <<"/">> -> "Divide"

\* s is a well-formed infix expression n1 op1 n2 ... opk n(k+1), k >= 0.
WellFormed(s) ==
    /\ Len(s) % 2 = 1
    /\ \A i \in 1..Len(s) :
          IF i % 2 = 1 THEN IsOperand(s[i]) ELSE IsArith(s[i])

\* a OP b in the integers, for a divisor b that is an operand token's value
\* (never negative): ok is false when there is no value (a zero divisor) or
\* the value is outside the i32 range.
Exact(kind, a, b) ==
    CASE kind = "Plus" ->
            IF AddOverflows(a, b) THEN [ok |-> FALSE, val |-> 0]
            ELSE [ok |-> TRUE, val |-> a + b]
      [] kind = "Minus" ->
            IF SubOverflows(a, b) THEN [ok |-> FALSE, val |-> 0]
            ELSE [ok |-> TRUE, val |-> a - b]
      [] kind = "Multiply" ->
            IF MulOverflows(a, b) THEN [ok |-> FALSE, val |-> 0]
            ELSE [ok |-> TRUE, val |-> a * b]
      [] kind = "Divide" ->
            IF b <= 0 \/ a = I32_MIN THEN [ok |-> FALSE, val |-> 0]
            ELSE [ok |-> TRUE,
                  val |-> IF a >= 0 THEN a \div b ELSE -((-a) \div b)]

\* Exact on values that may already be missing.
ExactOn(kind, x, y) ==
    IF x.ok /\ y.ok THEN Exact(kind, x.val, y.val)
    ELSE [ok |-> FALSE, val |-> 0]

\* The last even place of s that holds an operator of the kinds ks, or 0.
RECURSIVE LastOp(_, _)
LastOp(s, ks) ==
    IF Len(s) < 3 THEN 0
    ELSE IF KindOf(s[Len(s) - 1]) \in ks THEN Len(s) - 1
    ELSE LastOp(SubSeq(s, 1, Len(s) - 2), ks)

\* term ::= number | term (* | /) number, for s without + and -.
RECURSIVE TermValue(_)
TermValue(s) ==
    IF Len(s) = 1 THEN [ok |-> TRUE, val |-> ValueOf(s[1])]
    ELSE ExactOn(KindOf(s[Len(s) - 1]),
                 TermValue(SubSeq(s, 1, Len(s) - 2)),
                 [ok |-> TRUE, val |-> ValueOf(s[Len(s)])])

\* expr ::= term | expr (+ | -) term: the value of a well-formed expression
\* in standard arithmetic order, ok when every intermediate value exists and
\* is inside the i32 range.
RECURSIVE ExprValue(_)
ExprValue(s) ==
    LET k == LastOp(s, {"Plus", "Minus"})
    IN  IF k = 0 THEN TermValue(s)
        ELSE ExactOn(KindOf(s[k]),
                     ExprValue(SubSeq(s, 1, k - 1)),
                     TermValue(SubSeq(s, k + 1, Len(s))))

\* (((n1 op1 n2) op2 n3) ... opk n(k+1)): the operators applied left to
\* right whatever their kind.
RECURSIVE LeftFold(_)
LeftFold(s) ==
    IF Len(s) = 1 THEN [ok |-> TRUE, val |-> ValueOf(s[1])]
    ELSE ExactOn(KindOf(s[Len(s) - 1]),
                 LeftFold(SubSeq(s, 1, Len(s) - 2)),
                 [ok |-> TRUE, val |-> ValueOf(s[Len(s)])])

\* The call read exactly the well-formed tokens toks and did not stop on a
\* read error: it ended with the value v.
EndsWith(v) ==
    /\ pc # "Aborted"
    /\ pc = "Failed" => result = Err("ReadError")
    /\ pc = "Done" => result = Ok(v)

\* s is n1 op1 n2 ... with every operator of one precedence level, whether
\* or not the last operand has been read yet.
ChainPrefix(s) ==
    /\ s # <<>>
    /\ \A i \in 1..Len(s) :
          IF i % 2 = 1 THEN IsOperand(s[i]) ELSE IsArith(s[i])
    /\ \/ \A i \in 1..Len(s) : i % 2 = 0 => KindOf(s[i]) \in {"Plus", "Minus"}
       \/ \A i \in 1..Len(s) :
             i % 2 = 0 => KindOf(s[i]) \in {"Multiply", "Divide"}

\* s is "a OP b" with OP one of + - * / and b non-zero for /.
SingleOp(s) ==
    /\ Len(s) = 3
    /\ WellFormed(s)
    /\ KindOf(s[2]) = "Divide" => ValueOf(s[3]) # 0

\* a OP b for the single-operator expression s.
SingleValue(s) == Exact(KindOf(s[2]), ValueOf(s[1]), ValueOf(s[3]))

\* C1: for a well-formed infix expression without grouping, without a zero
\* divisor and with every intermediate value inside the i32 range, evaluate
\* returns the value under standard arithmetic order: * and / before + and -,
\* equal precedence left to right.
C1_StandardOrder ==
    WellFormed(toks) /\ ExprValue(toks).ok => EndsWith(ExprValue(toks).val)

\* C1 witness: "7 - 2 * 7 + 2" has been evaluated to -5.
C1_Witness ==
    /\ toks = <<<<"7">>, <<"-">>, <<"2">>, <<"*">>, <<"7">>, <<"+">>, <<"2">>>>
    /\ pc = "Done"
    /\ result = Ok(-5)
    /\ Len(reds) = 3

\* C2: for a well-formed chain whose operators all have the same precedence
\* (no zero divisor, no overflow) evaluate returns the left fold
\* (((n1 op1 n2) op2 n3) ...), and each operator is reduced before the next
\* one is pushed: the operator stack never holds two operators.
C2_LeftFold ==
    ChainPrefix(toks) =>
        /\ Len(ops) <= 1
        /\ WellFormed(toks) /\ LeftFold(toks).ok =>
              EndsWith(LeftFold(toks).val)

\* C2 witness: "7 - 2 - 2 - 7" has been evaluated to ((7 - 2) - 2) - 7.
C2_Witness ==
    /\ toks = <<<<"7">>, <<"-">>, <<"2">>, <<"-">>, <<"2">>, <<"-">>, <<"7">>>>
    /\ pc = "Done"
    /\ result = Ok(-4)

\* C3 as stated: for every single-operator expression "a OP b" (b non-zero
\* for /) the result is a OP b.
C3_Original ==
    SingleOp(toks) =>
        /\ pc # "Aborted"
        /\ pc = "Failed" => result = Err("ReadError")
        /\ pc = "Done" =>
              SingleValue(toks).ok /\ result = Ok(SingleValue(toks).val)

\* C3 amended: for every single-operator expression "a OP b" (b non-zero for
\* /) whose value a OP b is inside the i32 range, the result is a OP b, the
\* operand pushed earlier on the left.
C3_SingleOp ==
    SingleOp(toks) /\ SingleValue(toks).ok =>
        EndsWith(SingleValue(toks).val)

\* C3 witness: "2 - 7" has been evaluated to -5 and "7 / 2" is not inverted.
C3_Witness ==
    /\ SingleOp(toks)
    /\ KindOf(toks[2]) = "Minus"
    /\ ValueOf(toks[1]) < ValueOf(toks[3])
    /\ pc = "Done"
    /\ result.tag = "Ok" /\ result.val < 0

\* C4: at Done evaluate returns a success value only if the operand stack
\* holds exactly one entry; with none or more than one it fails with
\* StackUnderflow.
C4_DoneSingleOperand ==
    pc = "Done" =>
        /\ result.tag = "Ok" => Len(nums) = 1
        /\ Len(nums) # 1 => result = Err("StackUnderflow")

\* t is neither a string of decimal digits nor exactly one of + - * / ( ).
IsForeign(t) ==
    LET s == IF from_utf8_ok(t) THEN trim(t) ELSE t
    IN  /\ \E i \in 1..Len(s) : s[i] \notin Digits
        /\ ~(Len(s) = 1 /\ s[1] \in CHAR_OPS)

\* C5: a token that is neither a digit string nor one operator character
\* makes evaluate fail with ParseError, wherever it stands; it is never
\* skipped.
C5_ForeignTokenFails ==
    \A i \in 1..Len(toks) :
        IsForeign(toks[i]) =>
            i = Len(toks) /\ pc = "Failed" /\ result = Err("ParseError")

\* Every token read is an operand or one of + - * /.
OnlyOperandsAndArith(s) == \A i \in 1..Len(s) : IsOperand(s[i]) \/ IsArith(s[i])

\* Some operator of s has no operand token right after it.
OperatorLacksOperand(s) ==
    \E i \in 1..Len(s) :
        IsArith(s[i]) /\ (i = Len(s) \/ ~IsOperand(s[i + 1]))

\* C6: a stream of operands and + - * / that holds an operator with no
\* operand after it (the whole stream has been read) makes evaluate fail
\* with NotEnoughElements.
C6_OperatorWithoutOperand ==
    /\ Ended
    /\ SawEndOfInput
    /\ OnlyOperandsAndArith(toks)
    /\ OperatorLacksOperand(toks)
    => result = Err("NotEnoughElements")

\* t is a digit string that is empty or names a value outside i32.
IsUnparsableNumber(t) ==
    from_utf8_ok(t) /\ is_num(trim(t)) /\ ~parse(trim(t)).ok

\* C7: a digit string outside the i32 range, and an empty one, make evaluate
\* return ParseError; nothing aborts and no operand is pushed.
C7_UnparsableNumberFails ==
    \A i \in 1..Len(toks) :
        IsUnparsableNumber(toks[i]) =>
            i = Len(toks) /\ pc = "Failed" /\ result = Err("ParseError")

\* The reduction r found two operands and popped an operator of kind k.
Popped(r, k) == Len(r.nums) >= 2 /\ r.ops # <<>> /\ r.ops[Len(r.ops)].kind = k

\* The operand of r pushed earlier (the left-hand side).
Earlier(r) == r.nums[Len(r.nums) - 1]

\* The operand of r pushed later (the right-hand side, popped first).
Later(r) == r.nums[Len(r.nums)]

Abs(x) == IF x < 0 THEN -x ELSE x

\* q is a / b truncated toward zero: the remainder a - q * b is smaller
\* than b in magnitude and is zero or has the sign of a.
IsTruncatedQuotient(q, a, b) ==
    LET r == a - q * b
    IN  /\ Abs(r) < Abs(b)
        /\ r = 0 \/ (r < 0) = (a < 0)

\* C8: a Divide reduction with a non-zero divisor pushes the quotient
\* truncated toward zero, also for a negative dividend (the one pair with no
\* i32 quotient, MIN / -1, aside).
C8_DivisionTruncates ==
    \A i \in 1..Len(reds) :
        /\ Popped(reds[i], "Divide")
        /\ Later(reds[i]) # 0
        /\ ~(Earlier(reds[i]) = I32_MIN /\ Later(reds[i]) = -1)
        => /\ reds[i].res.tag = "Ok"
           /\ IsTruncatedQuotient(reds[i].res.val, Earlier(reds[i]),
                                  Later(reds[i]))

\* C8 witness: a negative dividend left by a subtraction was divided, and
\* not exactly ("0 - 7 + 2 /" divides -7 by 2).
C8_Witness ==
    \E i \in 1..Len(reds) :
        /\ Popped(reds[i], "Divide")
        /\ Earlier(reds[i]) < 0
        /\ Later(reds[i]) > 0
        /\ (-Earlier(reds[i])) % Later(reds[i]) # 0
        /\ reds[i].res.tag = "Ok"
        /\ nums # <<>> /\ nums[Len(nums)] = reds[i].res.val

\* C9: a Divide reduction whose right-hand operand is zero is fatal: it is
\* the last step of the call, which aborts; no result is pushed and no
\* success value is returned.
C9_DivideByZeroFatal ==
    \A i \in 1..Len(reds) :
        Popped(reds[i], "Divide") /\ Later(reds[i]) = 0 =>
            /\ reds[i].res.tag = "Panic"
            /\ i = Len(reds)
            /\ pc = "Aborted"
            /\ result.tag = "Panic"
            /\ nums = DropLast(reds[i].nums, 2)

\* C9 witness: a division by zero has been reduced while tokens were still
\* being scanned ("7 / 0 +").
C9_Witness ==
    \E i \in 1..Len(reds) :
        /\ Popped(reds[i], "Divide") /\ Later(reds[i]) = 0
        /\ reds[i].at = "PushOperator"

\* Some token read is "(" or ")".
HasGrouping(s) == \E i \in 1..Len(s) : IsGrouping(s[i])

\* C10: a stream that holds "(" or ")" never yields a success value: the call
\* ends in an abort or a tagged error, and a reduction that pops a grouping
\* operator aborts instead of pushing a value.
C10_GroupingNeverSucceeds ==
    HasGrouping(toks) =>
        /\ result.tag # "Ok"
        /\ Ended => result.tag \in {"Err", "Panic"}
        /\ \A i \in 1..Len(reds) :
              Popped(reds[i], "OpenParen") \/ Popped(reds[i], "CloseParen")
              => reds[i].res.tag = "Panic" /\ i = Len(reds) /\ pc = "Aborted"

\* C10 witness: a grouping operator has been popped by a reduction.
C10_Witness ==
    /\ HasGrouping(toks)
    /\ \E i \in 1..Len(reds) :
          Popped(reds[i], "OpenParen") \/ Popped(reds[i], "CloseParen")
    /\ pc = "Aborted"

\* C11: an empty token sequence fails with StackUnderflow: no token is
\* scanned, no reduction runs, and the operand stack is empty at Done.
C11_EmptyInput ==
    toks = <<>> =>
        /\ nums = <<>> /\ ops = <<>> /\ reds = <<>>
        /\ pc # "Aborted"
        /\ pc = "Failed" => result = Err("ReadError")
        /\ pc = "Done" => result = Err("StackUnderflow")

\* C11 witness: the call on the empty sequence has reached Done.
C11_Witness == toks = <<>> /\ pc = "Done" /\ result.tag = "Err"

\* The step is a call of Evaluator::evaluate.
IsReduction == reds' # reds

\* C13: while an operator token op is processed, a reduction runs only on a
\* top operator of precedence greater than or equal to op's and pops that top
\* entry; op is pushed only once the stack is empty or its top has a strictly
\* lower precedence (that entry stays), and the operator stack grows by
\* exactly op, in that one step.
C13_ReduceThenPush ==
    [][/\ pc = "PushOperator" /\ IsReduction =>
             /\ ops # <<>>
             /\ ops[Len(ops)].prec >= op.prec
             /\ reds'[Len(reds')].ops = ops
             /\ op' = op
             /\ reds'[Len(reds')].res.tag = "Ok" =>
                   pc' = "PushOperator" /\ ops' = DropLast(ops, 1)
       /\ pc = "PushOperator" /\ ~IsReduction =>
             /\ ops = <<>> \/ ops[Len(ops)].prec < op.prec
             /\ ops' = Append(ops, op)
             /\ pc' = "Scanning"
       /\ Len(ops') > Len(ops) =>
             pc = "PushOperator" /\ ~IsReduction
      ]_vars

\* C13 witness: for the last "+" of "7 - 2 * 7 +" both pending operators
\* were reduced, "*" first, and then "+" was pushed.
C13_Witness ==
    /\ toks = <<<<"7">>, <<"-">>, <<"2">>, <<"*">>, <<"7">>, <<"+">>>>
    /\ pc = "Scanning"
    /\ Len(reds) = 2
    /\ reds[1].ops[Len(reds[1].ops)].kind = "Multiply"
    /\ reds[2].ops[Len(reds[2].ops)].kind = "Minus"
    /\ ops = <<Op_new("Plus")>>
    /\ nums = <<-7>>

\* The stack s is the stack t with entries popped and nothing pushed.
IsRestOf(s, t) == Len(s) <= Len(t) /\ s = SubSeq(t, 1, Len(s))

\* C14: a reduction called with fewer than two operands, or with two or more
\* operands and no operator, returns NotEnoughElements and pushes no result.
C14_RefusedReduction ==
    \A i \in 1..Len(reds) :
        Len(reds[i].nums) < 2 \/ reds[i].ops = <<>> =>
            /\ reds[i].res = Err("NotEnoughElements")
            /\ i = Len(reds)
            /\ pc = "Failed" /\ result = Err("NotEnoughElements")
            /\ IsRestOf(nums, reds[i].nums)
            /\ ops = reds[i].ops

\* C14 witness: a reduction was called with two operands or more and an
\* empty operator stack, and was refused.
C14_Witness ==
    \E i \in 1..Len(reds) :
        /\ Len(reds[i].nums) >= 2 /\ reds[i].ops = <<>>
        /\ reds[i].res = Err("NotEnoughElements")

\* C15: in a call of the driver no operator of kind Unknown is ever on the
\* operator stack or about to be pushed, and neither a reduction nor the call
\* returns UnknownOperator.
C15_NoUnknownOperator ==
    /\ \A i \in 1..Len(ops) : ops[i].kind # "Unknown"
    /\ pc = "PushOperator" => op.kind # "Unknown"
    /\ \A i \in 1..Len(reds) :
          /\ reds[i].res # Err("UnknownOperator")
          /\ \A j \in 1..Len(reds[i].ops) : reds[i].ops[j].kind # "Unknown"
    /\ result # Err("UnknownOperator")

\* C15 witness: a character that is no operator was read between two
\* operators, and the call went on to reduce the operators.
C15_Witness ==
    /\ toks = <<<<"+">>, <<"a">>, <<"*">>>>
    /\ ops = <<Op_new("Plus"), Op_new("Multiply")>>
    /\ pc = "Draining"

\* The number of operator tokens among the tokens s.
OperatorTokens(s) ==
    Cardinality({i \in 1..Len(s) : IsArith(s[i]) \/ IsGrouping(s[i])})

\* C16: every call ends; when the token source gives no further token and no
\* error the driver moves from Scanning to Draining, which is entered from
\* nowhere else; a reduction in Draining removes exactly one operator or ends
\* the call with an error or an abort; Done is entered from Draining with the
\* operator stack empty; and the reductions of a call are never more than
\* the operator tokens read.
C16_Terminates ==
    /\ [](/\ Len(reds) <= OperatorTokens(toks)
          /\ pc = "Done" => ops = <<>>)
    /\ [][/\ pc = "Scanning" /\ toks' = toks /\ ~Ended' => pc' = "Draining"
          /\ pc' = "Draining" => pc \in {"Scanning", "Draining"}
          /\ pc = "Draining" /\ IsReduction =>
                \/ pc' = "Draining" /\ ops' = DropLast(ops, 1)
                \/ /\ pc' \in {"Failed", "Aborted"}
                   /\ result'.tag \in {"Err", "Panic"}
          /\ pc = "Draining" /\ ~IsReduction => ops = <<>> /\ pc' = "Done"
          /\ pc' = "Done" => pc = "Draining"
         ]_vars
    /\ <>Ended

\* C16 witness: a call ended in Done after two reductions in Draining, one
\* for each operator token.
C16_Witness ==
    /\ pc = "Done" /\ Len(reds) = 2 /\ OperatorTokens(toks) = 2
    /\ \A i \in 1..Len(reds) : reds[i].at = "Draining"

\* The precedences of the operator stack os grow strictly from bottom to top.
StrictlyIncreasing(os) ==
    \A i \in 1..Len(os) - 1 : os[i].prec < os[i + 1].prec

\* C17: whenever the driver has finished an operator token (and in every
\* state between), the precedences of the operator stack are strictly
\* increasing from bottom to top; the stack holds at most three operators,
\* and at most two when no grouping token was read.
C17_StrictPrecedences ==
    /\ StrictlyIncreasing(ops)
    /\ Len(ops) <= 3
    /\ ~HasGrouping(toks) => Len(ops) <= 2

\* C17 witness: three operator tokens of growing precedence were processed
\* and the operator stack holds all three.
C17_Witness ==
    /\ pc = "Scanning" /\ Len(ops) = 3
    /\ toks = <<<<"-">>, <<"/">>, <<"(">>>>

\* The number of operand tokens among the tokens s.
NumberTokens(s) == Cardinality({i \in 1..Len(s) : IsOperand(s[i])})

\* The operator tokens the driver has finished: every operator token read,
\* but for the one whose push is still to come.
OperatorsConsumed ==
    OperatorTokens(toks) - (IF pc = "PushOperator" THEN 1 ELSE 0)

\* C18: a successful reduction leaves each stack one entry shorter; in every
\* state that is no error state the size of the operand stack minus the size
\* of the operator stack is the number of operand tokens consumed minus the
\* number of operator tokens consumed; and a well-formed expression ends in
\* Done with exactly one operand.
C18_StackBalance ==
    /\ [](/\ ~(pc \in {"Failed", "Aborted"}) =>
                Len(nums) - Len(ops) = NumberTokens(toks) - OperatorsConsumed
          /\ pc = "Done" /\ WellFormed(toks) => Len(nums) = 1)
    /\ [][IsReduction /\ reds'[Len(reds')].res.tag = "Ok" =>
              /\ Len(nums') = Len(nums) - 1
              /\ Len(ops') = Len(ops) - 1
         ]_vars

\* C18 witness: a well-formed expression of three operands and two operators
\* ended in Done after two successful reductions.
C18_Witness ==
    /\ pc = "Done" /\ WellFormed(toks) /\ Len(toks) = 5
    /\ Len(reds) = 2 /\ Len(nums) = 1 /\ ops = <<>>

\* C19: after a reduction refused with NotEnoughElements (the last of the
\* call) both stacks are exactly what they were when it was called.
C19_RefusalKeepsStacks ==
    /\ reds # <<>>
    /\ reds[Len(reds)].res = Err("NotEnoughElements")
    => /\ nums = reds[Len(reds)].nums
       /\ ops = reds[Len(reds)].ops

\* C12: every call starts with both stacks empty, and a call on the token
\* sequence of an earlier call (same tokens, same end of the source, same
\* build) reads all of it and ends with the outcome of the earlier call.
C12_SameOutcome ==
    /\ pc = "Scanning" /\ toks = <<>> => nums = <<>> /\ ops = <<>>
    /\ calls # <<>> /\ Ended =>
          /\ toks = calls[1].toks
          /\ result = calls[1].result
          /\ ReachedEnd = calls[1].eof
    /\ calls # <<>> /\ pc = "Scanning" /\ toks = calls[1].toks =>
          calls[1].eof \/ calls[1].result = Err("ReadError")

\* C12 witness: "7 - 2" was evaluated to 5, and a second call on the same
\* tokens has ended.
C12_Witness ==
    /\ calls # <<>> /\ calls[1].result = Ok(5)
    /\ toks = <<<<"7">>, <<"-">>, <<"2">>>>
    /\ pc = "Done" /\ Len(reds) = 1

=============================================================================
